---- MODULE Spec2Model ----
(***************************************************************************)
(* SMS AI assistant: the message-processing pipeline (SMSService), the     *)
(* conversation / message / outbox tables behind it (SQLite, one           *)
(* connection per request) and the relay-facing routes.                    *)
(*                                                                         *)
(* Every request runs as its own cooperative task on its own connection;   *)
(* each awaited database statement (execute + commit) or provider call is  *)
(* one atomic step, and tasks interleave between steps.                     *)
(***************************************************************************)
EXTENDS Integers, Sequences, FiniteSets, TLC

----------------------------------------------------------------------------
(* Bounds of the model *)

\* concurrent POST /api/sms/incoming requests
NReq == 2
\* concurrent POST /api/sms/outgoing/{id}/ack requests
NAck == 2
\* the clock takes the values 0..MaxTime
MaxTime == 1
\* clock values per calendar day
TicksPerDay == 1
\* the largest retention window (in days) cleanup_old is called with
MaxDays == 1
\* the largest max_retries an OpenAIProvider is constructed with
MaxRetries == 4
\* the longest phone number string enumerated character by character
MaxLen == 3

(* Program constants *)

\* sent_at of an entry never sent (SQL NULL)
NULL == -1
\* OpenAIProvider.__init__: max_retries
max_retries == 3
\* get_outgoing_messages / get_pending: default batch size
DefaultLimit == 10
\* SMSService.__init__ default is 20; the model runs the service with a
\* smaller context window so that the window can be exceeded
max_context == 2

FALLBACK_MESSAGE == "I'm having trouble right now. Please try again in a moment."

Requests == 1..NReq
Acks == 1..NAck
Times == 0..MaxTime

----------------------------------------------------------------------------
(* Inputs *)

\* phone numbers as the relay sends them: sequences of characters
PlusOne == <<"+", "1">>
PlusTwo == <<"+", "2">>
PhoneNumbers == {PlusOne, PlusTwo}
Contents == {"hi"}
\* X-API-Key header values
ApiKeys == {"secret", "wrong"}
\* the settings the process may run with: open mode without an API key, or
\* an allowlist and an API key
Settings ==
    {[allowed_phone_numbers |-> <<>>, sms_api_key |-> ""],
     [allowed_phone_numbers |-> <<PlusOne>>, sms_api_key |-> "secret"]}
\* what one call of the provider's completion endpoint can do
ProviderOutcomes == {"content", "empty", "rate", "api", "other"}
Reply == "hello"

Digits == {"0", "1", "2", "3", "4", "5", "6", "7", "8", "9"}
Whitespace == {" "}

----------------------------------------------------------------------------
(* AuthService *)

RECURSIVE lstrip(_)
lstrip(s) ==
    IF s # <<>> /\ Head(s) \in Whitespace THEN lstrip(Tail(s)) ELSE s

RECURSIVE rstrip(_)
rstrip(s) ==
    IF s # <<>> /\ s[Len(s)] \in Whitespace
    THEN rstrip(SubSeq(s, 1, Len(s) - 1)) ELSE s

strip(s) == rstrip(lstrip(s))

IsDigit(c) == c \in Digits

\* re.sub(r"[^\d]", "", s)
digits_only(s) == SelectSeq(s, IsDigit)

\* (mutant) a normalization that drops the leading "+" as well
normalize_digits(phone) == digits_only(phone)

\* AuthService._normalize
normalize(phone) ==
    IF phone = <<>> THEN <<>>
    ELSE LET p == strip(phone)
         IN  IF p # <<>> /\ Head(p) = "+"
             THEN <<"+">> \o digits_only(Tail(p))
             ELSE digits_only(p)

\* AuthService.__init__
AuthService(allowed_numbers) ==
    LET allowed == {normalize(allowed_numbers[i]) :
                        i \in {j \in DOMAIN allowed_numbers : allowed_numbers[j] # <<>>}}
    IN  [allowed |-> allowed, open_mode |-> Cardinality(allowed) = 0]

\* (mutant) the incoming number is compared as received
is_authorized_raw(a, phone_number) == a.open_mode \/ phone_number \in a.allowed

\* AuthService.is_authorized
is_authorized(a, phone_number) ==
    IF a.open_mode THEN TRUE
    ELSE normalize(phone_number) \in a.allowed

----------------------------------------------------------------------------
(* OpenAIProvider.generate_response: `run` gives the outcome of each provider
   call the retry loop may make (run[attempt + 1] for attempt 0, 1, ...).
   The result carries the returned text, the number of provider calls made
   and the backoff waits (seconds) in the order they were slept. *)

Min(a, b) == IF a <= b THEN a ELSE b

\* (mutant) the loop without its `except Exception` clause: an unexpected
\* error leaves generate_response
attempt_result_uncaught(retries, o, attempt) ==
    CASE o = "content" -> [kind |-> "return", text |-> Reply, wait_time |-> <<>>]
      [] o = "empty" -> [kind |-> "return", text |-> FALLBACK_MESSAGE, wait_time |-> <<>>]
      [] o = "rate" -> [kind |-> "continue", text |-> "",
                        wait_time |-> <<Min(2 ^ (attempt + 2), 30)>>]
      [] o = "api" -> [kind |-> "continue", text |-> "",
                       wait_time |-> IF attempt < retries - 1
                                     THEN <<2 ^ attempt>> ELSE <<>>]
      [] OTHER -> [kind |-> "raise", text |-> "", wait_time |-> <<>>]

\* (mutant) a transient API error backs off after the last attempt too
attempt_result_always_backoff(retries, o, attempt) ==
    CASE o = "content" -> [kind |-> "return", text |-> Reply, wait_time |-> <<>>]
      [] o = "empty" -> [kind |-> "return", text |-> FALLBACK_MESSAGE, wait_time |-> <<>>]
      [] o = "rate" -> [kind |-> "continue", text |-> "",
                        wait_time |-> <<Min(2 ^ (attempt + 2), 30)>>]
      [] o = "api" -> [kind |-> "continue", text |-> "", wait_time |-> <<2 ^ attempt>>]
      [] OTHER -> [kind |-> "break", text |-> "", wait_time |-> <<>>]

\* (mutant) the rate-limit wait without its 30 second cap
attempt_result_uncapped(retries, o, attempt) ==
    CASE o = "content" -> [kind |-> "return", text |-> Reply, wait_time |-> <<>>]
      [] o = "empty" -> [kind |-> "return", text |-> FALLBACK_MESSAGE, wait_time |-> <<>>]
      [] o = "rate" -> [kind |-> "continue", text |-> "",
                        wait_time |-> <<2 ^ (attempt + 2)>>]
      [] o = "api" -> [kind |-> "continue", text |-> "",
                       wait_time |-> IF attempt < retries - 1
                                     THEN <<2 ^ attempt>> ELSE <<>>]
      [] OTHER -> [kind |-> "break", text |-> "", wait_time |-> <<>>]

\* (mutant) an unexpected error is retried like a transient API error
attempt_result_retry_all(retries, o, attempt) ==
    CASE o = "content" -> [kind |-> "return", text |-> Reply, wait_time |-> <<>>]
      [] o = "empty" -> [kind |-> "return", text |-> FALLBACK_MESSAGE, wait_time |-> <<>>]
      [] o = "rate" -> [kind |-> "continue", text |-> "",
                        wait_time |-> <<Min(2 ^ (attempt + 2), 30)>>]
      [] OTHER -> [kind |-> "continue", text |-> "",
                   wait_time |-> IF attempt < retries - 1
                                 THEN <<2 ^ attempt>> ELSE <<>>]

\* one iteration of `for attempt in range(self._max_retries)` on a provider
\* call with outcome o: what the iteration does next, the text it returns and
\* the time it sleeps
attempt_result(retries, o, attempt) ==
    CASE o = "content" -> [kind |-> "return", text |-> Reply, wait_time |-> <<>>]
      [] o = "empty" -> [kind |-> "return", text |-> FALLBACK_MESSAGE, wait_time |-> <<>>]
      [] o = "rate" -> [kind |-> "continue", text |-> "",
                        wait_time |-> <<Min(2 ^ (attempt + 2), 30)>>]
      [] o = "api" -> [kind |-> "continue", text |-> "",
                       wait_time |-> IF attempt < retries - 1
                                     THEN <<2 ^ attempt>> ELSE <<>>]
      [] OTHER -> [kind |-> "break", text |-> "", wait_time |-> <<>>]

RECURSIVE attempt_loop(_, _, _, _)
attempt_loop(run, attempt, calls, waits) ==
    IF attempt >= max_retries
    THEN [text |-> FALLBACK_MESSAGE, calls |-> calls, waits |-> waits]
    ELSE LET e == attempt_result(max_retries, run[attempt + 1], attempt)
         IN  CASE e.kind = "return" ->
                    [text |-> e.text, calls |-> calls + 1, waits |-> waits]
               [] e.kind = "continue" ->
                    attempt_loop(run, attempt + 1, calls + 1, waits \o e.wait_time)
               [] OTHER ->
                    [text |-> FALLBACK_MESSAGE, calls |-> calls + 1, waits |-> waits]

generate_response(run) == attempt_loop(run, 0, 0, <<>>)

ProviderRuns == [1..max_retries -> ProviderOutcomes]

----------------------------------------------------------------------------
(* State *)

VARIABLES
    auth,           \* the AuthService singleton (dependencies.get_auth_service)
    sms_api_key,    \* settings.sms_api_key ("" when not configured)
    conversations,  \* table conversations: set of rows
    messages,       \* table messages: set of rows
    outbox,         \* table outbox: set of rows
    sqlite_sequence,\* AUTOINCREMENT counters, one per table
    now,            \* the clock (datetime.utcnow)
    req,            \* the POST /api/sms/incoming requests, each running process_incoming
    ack,            \* the POST /api/sms/outgoing/{id}/ack requests
    reply,          \* what the call that has just returned answered (a poll, a
                    \* health check, cleanup_old or delete), until the next step
    call            \* a call of one component on its own: generate_response,
                    \* is_authorized

vars == <<auth, sms_api_key, conversations, messages, outbox, sqlite_sequence,
          now, req, ack, reply, call>>

tables == <<conversations, messages, outbox, sqlite_sequence>>

\* (mutant) the outbox entry is enqueued before the assistant message is stored
PipelineEnqueueFirst ==
    <<"auth", "find_or_create", "store_user", "get_history",
      "generate_response", "enqueue", "store_assistant", "touch">>

\* the pipeline of process_incoming in the order of the code
Pipeline == <<"auth", "find_or_create", "store_user", "get_history",
              "generate_response", "store_assistant", "enqueue", "touch">>

IdleReq ==
    [pc |-> "idle", phone_number |-> <<>>, content |-> "",
     conversation |-> 0, history |-> <<>>, response |-> "", wrote |-> <<>>,
     steps |-> <<>>, raised |-> "", result |-> "none", ok |-> "none"]

NoReply == [op |-> "none"]

NoCall == [op |-> "none"]

IdleAck ==
    [pc |-> "idle", message_id |-> 0, status |-> "", now |-> NULL,
     success |-> "none", saw_pending |-> FALSE]

Init ==
    /\ \E settings \in Settings :
         /\ auth = AuthService(settings.allowed_phone_numbers)
         /\ sms_api_key = settings.sms_api_key
    /\ conversations = {}
    /\ messages = {}
    /\ outbox = {}
    /\ sqlite_sequence = [conversations |-> 0, messages |-> 0, outbox |-> 0]
    /\ now = 0
    /\ req = [t \in Requests |-> IdleReq]
    /\ ack = [a \in Acks |-> IdleAck]
    /\ reply = NoReply
    /\ call = NoCall

----------------------------------------------------------------------------
(* The tables.  Rows carry the columns of SCHEMA; an INTEGER PRIMARY KEY
   AUTOINCREMENT id is one more than the largest id the table ever held. *)

\* (mutant) INTEGER PRIMARY KEY without AUTOINCREMENT: one more than the
\* largest id the table holds now
rowid_after_largest(table) ==
    LET ids == CASE table = "conversations" -> {c.id : c \in conversations}
                 [] table = "messages" -> {m.id : m \in messages}
                 [] OTHER -> {o.id : o \in outbox}
    IN  IF ids = {} THEN 1 ELSE (CHOOSE i \in ids : \A j \in ids : j <= i) + 1

next_id(table) == sqlite_sequence[table] + 1

\* SELECT ... FROM conversations WHERE phone_number = ?
find_by_phone(phone_number) ==
    {c \in conversations : c.phone_number = phone_number}

\* (mutant) a conversations table without the UNIQUE constraint
no_unique_constraint(phone_number) == FALSE

\* phone_number TEXT UNIQUE: the INSERT of find_or_create raises when a row
\* holds the number already
unique_violation(phone_number) == find_by_phone(phone_number) # {}

\* (mutant) a connection without PRAGMA foreign_keys = ON
foreign_keys_off(conversation_id) == FALSE

\* FOREIGN KEY (conversation_id) REFERENCES conversations(id), foreign_keys = ON
foreign_key_violation(conversation_id) ==
    \A c \in conversations : c.id # conversation_id

conversation_row(id, phone_number, at) ==
    [id |-> id, phone_number |-> phone_number, created_at |-> at, updated_at |-> at]

\* MessageRepository.create
message_row(id, conversation_id, role, content, at, status) ==
    [id |-> id, conversation_id |-> conversation_id, role |-> role,
     content |-> content, timestamp |-> at, status |-> status]

\* OutboxRepository.enqueue
outbox_row(id, phone_number, content, at) ==
    [id |-> id, phone_number |-> phone_number, content |-> content,
     created_at |-> at, status |-> "pending", sent_at |-> NULL]

\* (mutant) ORDER BY timestamp ASC
RECURSIVE timestamp_ascending(_)
timestamp_ascending(rows) ==
    IF rows = {} THEN <<>>
    ELSE LET first == CHOOSE r \in rows : \A q \in rows :
                          \/ r.timestamp < q.timestamp
                          \/ r.timestamp = q.timestamp /\ r.id <= q.id
         IN  <<first>> \o timestamp_ascending(rows \ {first})

\* ORDER BY timestamp DESC: SQLite feeds the sorter in rowid order and keeps
\* rows of equal timestamp in that order
RECURSIVE newest_first(_)
newest_first(rows) ==
    IF rows = {} THEN <<>>
    ELSE LET first == CHOOSE r \in rows : \A q \in rows :
                          \/ r.timestamp > q.timestamp
                          \/ r.timestamp = q.timestamp /\ r.id <= q.id
         IN  <<first>> \o newest_first(rows \ {first})

\* (mutant) ORDER BY created_at DESC
RECURSIVE newest_created_first(_)
newest_created_first(rows) ==
    IF rows = {} THEN <<>>
    ELSE LET first == CHOOSE r \in rows : \A q \in rows :
                          \/ r.created_at > q.created_at
                          \/ r.created_at = q.created_at /\ r.id >= q.id
         IN  <<first>> \o newest_created_first(rows \ {first})

\* ORDER BY created_at ASC, rows of equal created_at in rowid order
RECURSIVE oldest_first(_)
oldest_first(rows) ==
    IF rows = {} THEN <<>>
    ELSE LET first == CHOOSE r \in rows : \A q \in rows :
                          \/ r.created_at < q.created_at
                          \/ r.created_at = q.created_at /\ r.id <= q.id
         IN  <<first>> \o oldest_first(rows \ {first})

Reverse(s) == [i \in 1..Len(s) |-> s[Len(s) + 1 - i]]

\* LIMIT ?
limit_to(s, limit) == SubSeq(s, 1, Min(Len(s), limit))

\* MessageRepository.get_history
get_history(conversation_id, limit) ==
    Reverse(limit_to(
        newest_first({m \in messages : m.conversation_id = conversation_id}),
        limit))

\* (mutant) a poll that does not filter on the status
get_pending_unfiltered(limit) == limit_to(oldest_first(outbox), limit)

\* OutboxRepository.get_pending
get_pending(limit) ==
    limit_to(oldest_first({o \in outbox : o.status = "pending"}), limit)

\* (mutant) a count that ignores the status
count_all == Cardinality(outbox)

\* OutboxRepository.get_pending_count
get_pending_count == Cardinality({o \in outbox : o.status = "pending"})

\* (mutant) the UPDATE without its status = 'pending' predicate
acknowledge_matches_any_status(message_id) ==
    {o \in outbox : o.id = message_id}

\* the rows the UPDATE of OutboxRepository.acknowledge changes
acknowledge_matches(message_id) ==
    {o \in outbox : o.id = message_id /\ o.status = "pending"}

\* cursor.rowcount of that UPDATE
acknowledge_rowcount(message_id) == Cardinality(acknowledge_matches(message_id))

\* (mutant) the UPDATE rewrites the row whatever its status
acknowledge_update_unguarded(message_id, status, sent_at) ==
    {IF o.id = message_id
     THEN [o EXCEPT !.status = status, !.sent_at = sent_at]
     ELSE o : o \in outbox}

\* OutboxRepository.acknowledge: the table after the UPDATE
acknowledge_update(message_id, status, sent_at) ==
    {IF o \in acknowledge_matches(message_id)
     THEN [o EXCEPT !.status = status, !.sent_at = sent_at]
     ELSE o : o \in outbox}

\* the calendar day of a clock value: the first ten characters of its ISO form
day_of(t) == t \div TicksPerDay

\* created_at < datetime('now', '-N days'): created_at is stored as
\* 'YYYY-MM-DDTHH:MM:SS.ffffff' and datetime() yields 'YYYY-MM-DD HH:MM:SS';
\* the two are compared as text, so the dates decide and, on the same date,
\* 'T' sorts after ' '
older_than(created_at, at, days) == day_of(created_at) < day_of(at) - days

\* (mutant) a DELETE without the status predicate
cleanup_matches_any_status(at, days) ==
    {o \in outbox : older_than(o.created_at, at, days)}

\* OutboxRepository.cleanup_old: the rows the DELETE removes
cleanup_matches(at, days) ==
    {o \in outbox : o.status \in {"sent", "failed"} /\ older_than(o.created_at, at, days)}

----------------------------------------------------------------------------
(* POST /api/sms/incoming and SMSService.process_incoming *)

\* the step process_incoming runs once `step` has completed
after(step) ==
    LET i == CHOOSE j \in DOMAIN Pipeline : Pipeline[j] = step
    IN  IF i = Len(Pipeline) THEN "return" ELSE Pipeline[i + 1]

\* receive_sms: the body it answers with once process_incoming returned `result`
receive_sms_ok(result) == "true"

\* process_incoming returns `result` (its locals are gone) and receive_sms
\* answers
returned(r, result) ==
    [r EXCEPT !.pc = "done", !.history = <<>>, !.result = result,
              !.ok = receive_sms_ok(result)]

\* `step` completed without raising
completed(r, step) ==
    LET r2 == [r EXCEPT !.steps = Append(@, step)]
    IN  IF after(step) = "return" THEN returned(r2, "true")
        ELSE [r2 EXCEPT !.pc = after(step)]

\* (mutant) the exception is swallowed where it is raised and the pipeline goes on
raise_and_continue(r, exception) == [r EXCEPT !.raised = exception]

\* the awaited call raised `exception`: except Exception -> return False
raise(r, exception) == returned([r EXCEPT !.raised = exception], "false")

\* the API key check of receive_sms
bad_api_key(x_api_key) == sms_api_key # "" /\ x_api_key # sms_api_key

\* (mutant) the authorization check without its early return
authorize_without_return(r) == completed(r, "auth")

\* process_incoming up to its first await: the authorization check
authorize(r) ==
    IF ~is_authorized(auth, r.phone_number)
    THEN returned([r EXCEPT !.steps = <<"auth">>], "false")
    ELSE completed(r, "auth")

\* requests are numbered in the order they arrive
Arrives(t) == req[t].pc = "idle" /\ \A u \in Requests : u < t => req[u].pc # "idle"

\* receive_sms up to the first await of process_incoming: the API key check
\* and the authorization check
Receive(t) ==
    /\ Arrives(t)
    /\ \E x_api_key \in ApiKeys, phone_number \in PhoneNumbers, content \in Contents :
         LET r == [req[t] EXCEPT !.phone_number = phone_number, !.content = content]
         IN  req' = [req EXCEPT ![t] =
                 IF bad_api_key(x_api_key) THEN [r EXCEPT !.pc = "done", !.ok = "false"]
                 ELSE authorize(r)]
    /\ UNCHANGED <<call, auth, sms_api_key, tables, now, ack>>
    /\ reply' = NoReply

\* find_or_create: the SELECT of find_by_phone
FindByPhone(t) ==
    /\ req[t].pc = "find_or_create"
    /\ LET existing == find_by_phone(req[t].phone_number)
       IN  req' = [req EXCEPT ![t] =
               IF existing # {}
               THEN completed([@ EXCEPT !.conversation = (CHOOSE c \in existing : TRUE).id],
                              "find_or_create")
               ELSE [@ EXCEPT !.pc = "insert_conversation"]]
    /\ UNCHANGED <<call, auth, sms_api_key, tables, now, ack>>
    /\ reply' = NoReply

\* find_or_create: the INSERT after find_by_phone found nothing
InsertConversation(t) ==
    /\ req[t].pc = "insert_conversation"
    /\ IF unique_violation(req[t].phone_number)
       THEN /\ req' = [req EXCEPT ![t] = raise(@, "IntegrityError")]
            /\ UNCHANGED <<conversations, sqlite_sequence>>
       ELSE LET id == next_id("conversations")
            IN  /\ conversations' = conversations \cup
                       {conversation_row(id, req[t].phone_number, now)}
                /\ sqlite_sequence' = [sqlite_sequence EXCEPT !.conversations = id]
                /\ req' = [req EXCEPT ![t] =
                       completed([@ EXCEPT !.conversation = id], "find_or_create")]
    /\ UNCHANGED <<call, auth, sms_api_key, messages, outbox, now, ack>>
    /\ reply' = NoReply

\* MessageRepository.create as process_incoming calls it for `role`
Create(t, step, role, content, status) ==
    /\ req[t].pc = step
    /\ IF foreign_key_violation(req[t].conversation)
       THEN /\ req' = [req EXCEPT ![t] = raise(@, "IntegrityError")]
            /\ UNCHANGED <<messages, sqlite_sequence>>
       ELSE LET id == next_id("messages")
            IN  /\ messages' = messages \cup
                       {message_row(id, req[t].conversation, role, content, now, status)}
                /\ sqlite_sequence' = [sqlite_sequence EXCEPT !.messages = id]
                /\ req' = [req EXCEPT ![t] =
                       completed([@ EXCEPT !.wrote = Append(@, id)], step)]
    /\ UNCHANGED <<call, auth, sms_api_key, conversations, outbox, now, ack>>
    /\ reply' = NoReply

StoreUser(t) == Create(t, "store_user", "user", req[t].content, "received")

GetHistory(t) ==
    /\ req[t].pc = "get_history"
    /\ req' = [req EXCEPT ![t] =
           completed([@ EXCEPT !.history = get_history(req[t].conversation, max_context)],
                     "get_history")]
    /\ UNCHANGED <<call, auth, sms_api_key, tables, now, ack>>
    /\ reply' = NoReply

\* (mutant) a fallback reply is not stored or sent: process_incoming returns
\* after the provider call
GenerateDropsFallback(t) ==
    /\ req[t].pc = "generate_response"
    /\ \E response \in {generate_response(run).text : run \in ProviderRuns} :
         req' = [req EXCEPT ![t] =
             IF response = FALLBACK_MESSAGE
             THEN returned([@ EXCEPT !.response = response,
                                     !.steps = Append(@, "generate_response")], "true")
             ELSE completed([@ EXCEPT !.response = response], "generate_response")]
    /\ UNCHANGED <<call, auth, sms_api_key, tables, now, ack>>
    /\ reply' = NoReply

Generate(t) ==
    /\ req[t].pc = "generate_response"
    /\ \E response \in {generate_response(run).text : run \in ProviderRuns} :
         req' = [req EXCEPT ![t] =
             completed([@ EXCEPT !.response = response], "generate_response")]
    /\ UNCHANGED <<call, auth, sms_api_key, tables, now, ack>>
    /\ reply' = NoReply

StoreAssistant(t) ==
    Create(t, "store_assistant", "assistant", req[t].response, "pending")

Enqueue(t) ==
    /\ req[t].pc = "enqueue"
    /\ LET id == next_id("outbox")
       IN  /\ outbox' = outbox \cup
                  {outbox_row(id, req[t].phone_number, req[t].response, now)}
           /\ sqlite_sequence' = [sqlite_sequence EXCEPT !.outbox = id]
    /\ req' = [req EXCEPT ![t] = completed(@, "enqueue")]
    /\ UNCHANGED <<call, auth, sms_api_key, conversations, messages, now, ack>>
    /\ reply' = NoReply

\* ConversationRepository.touch
Touch(t) ==
    /\ req[t].pc = "touch"
    /\ conversations' =
           {IF c.id = req[t].conversation THEN [c EXCEPT !.updated_at = now] ELSE c :
                c \in conversations}
    /\ req' = [req EXCEPT ![t] = completed(@, "touch")]
    /\ UNCHANGED <<call, auth, sms_api_key, messages, outbox, sqlite_sequence, now, ack>>
    /\ reply' = NoReply

\* (mutant) the pipeline as one transaction: a failure takes back the
\* messages the call has written
RaiseRollsBack(t) ==
    /\ req[t].pc \notin {"idle", "done"}
    /\ req' = [req EXCEPT ![t] = raise(@, "Exception")]
    /\ messages' = {m \in messages :
                       \A i \in DOMAIN req[t].wrote : m.id # req[t].wrote[i]}
    /\ UNCHANGED <<call, auth, sms_api_key, conversations, outbox, sqlite_sequence, now, ack>>
    /\ reply' = NoReply

\* the awaited collaborator call fails: the database is locked or gone, the
\* provider raises
Raise(t) ==
    /\ req[t].pc \notin {"idle", "done"}
    /\ req' = [req EXCEPT ![t] = raise(@, "Exception")]
    /\ UNCHANGED <<call, auth, sms_api_key, tables, now, ack>>
    /\ reply' = NoReply

----------------------------------------------------------------------------
(* The relay's polling and acknowledgment path, health, housekeeping *)

Terminal == {"sent", "failed"}

\* outbox ids an acknowledgment may name (an id not yet enqueued, or purged,
\* is an absent entry)
AckIds == 1..NReq

PollLimits == {1, DefaultLimit}

AckArrives(a) == ack[a].pc = "idle" /\ \A b \in Acks : b < a => ack[b].pc # "idle"

\* (mutant) acknowledge stamps the time whatever the status
AckCallStampsAlways(a) ==
    /\ AckArrives(a)
    /\ \E message_id \in AckIds, status \in Terminal :
         ack' = [ack EXCEPT ![a] =
             [pc |-> "called", message_id |-> message_id, status |-> status,
              now |-> now,
              success |-> "none",
              saw_pending |-> acknowledge_matches(message_id) # {}]]
    /\ UNCHANGED <<call, auth, sms_api_key, tables, now, req>>
    /\ reply' = NoReply

\* acknowledge is called: it reads the clock, then awaits the UPDATE
AckCall(a) ==
    /\ AckArrives(a)
    /\ \E message_id \in AckIds, status \in Terminal :
         ack' = [ack EXCEPT ![a] =
             [pc |-> "called", message_id |-> message_id, status |-> status,
              now |-> IF status = "sent" THEN now ELSE NULL,
              success |-> "none",
              saw_pending |-> acknowledge_matches(message_id) # {}]]
    /\ UNCHANGED <<call, auth, sms_api_key, tables, now, req>>
    /\ reply' = NoReply

\* (mutant) an acknowledgment that also sets the status of the assistant
\* messages
AckExecUpdatesMessages(a) ==
    /\ ack[a].pc = "called"
    /\ outbox' = acknowledge_update(ack[a].message_id, ack[a].status, ack[a].now)
    /\ messages' = IF acknowledge_rowcount(ack[a].message_id) > 0
                   THEN {IF m.role = "assistant"
                         THEN [m EXCEPT !.status = ack[a].status] ELSE m : m \in messages}
                   ELSE messages
    /\ ack' = [ack EXCEPT ![a].pc = "done",
                          ![a].success =
                              IF acknowledge_rowcount(ack[a].message_id) > 0
                              THEN "true" ELSE "false"]
    /\ UNCHANGED <<call, auth, sms_api_key, conversations, sqlite_sequence, now, req>>
    /\ reply' = NoReply

\* the UPDATE of acknowledge and its commit; acknowledge returns rowcount > 0
AckExec(a) ==
    /\ ack[a].pc = "called"
    /\ outbox' = acknowledge_update(ack[a].message_id, ack[a].status, ack[a].now)
    /\ ack' = [ack EXCEPT ![a].pc = "done",
                          ![a].success =
                              IF acknowledge_rowcount(ack[a].message_id) > 0
                              THEN "true" ELSE "false"]
    /\ UNCHANGED <<call, auth, sms_api_key, conversations, messages, sqlite_sequence, now, req>>
    /\ reply' = NoReply

\* GET /api/sms/outgoing, SMSService.get_outgoing_messages(limit)
GetOutgoing ==
    /\ \E limit \in PollLimits :
         reply' = [op |-> "get_outgoing", limit |-> limit, messages |-> get_pending(limit)]
    /\ UNCHANGED <<call, auth, sms_api_key, tables, now, req, ack>>

\* GET /api/health
HealthCheck ==
    /\ reply' = [op |-> "health", status |-> "ok", pending_outbox |-> get_pending_count]
    /\ UNCHANGED <<call, auth, sms_api_key, tables, now, req, ack>>

\* OutboxRepository.cleanup_old(days)
CleanupOld ==
    /\ \E days \in 0..MaxDays :
         /\ outbox' = outbox \ cleanup_matches(now, days)
         /\ reply' = [op |-> "cleanup_old", days |-> days,
                      count |-> Cardinality(cleanup_matches(now, days))]
    /\ UNCHANGED <<call, auth, sms_api_key, conversations, messages, sqlite_sequence, now, req,
                   ack>>

\* ConversationRepository.delete(phone_number); messages go with their
\* conversation (ON DELETE CASCADE)
Delete ==
    /\ \E phone_number \in PhoneNumbers :
         LET gone == find_by_phone(phone_number)
         IN  /\ conversations' = conversations \ gone
             /\ messages' = {m \in messages : \A c \in gone : m.conversation_id # c.id}
             /\ reply' = [op |-> "delete", phone_number |-> phone_number,
                          existed |-> Cardinality(gone) > 0]
    /\ UNCHANGED <<call, auth, sms_api_key, outbox, sqlite_sequence, now, req, ack>>

\* time passes
Tick ==
    /\ now < MaxTime
    /\ now' = now + 1
    /\ UNCHANGED <<call, auth, sms_api_key, tables, req, ack>>
    /\ reply' = NoReply

\* the steps of one process_incoming call after the authorization check
Step(t) ==
    \/ FindByPhone(t)
    \/ InsertConversation(t)
    \/ StoreUser(t)
    \/ GetHistory(t)
    \/ Generate(t)
    \/ StoreAssistant(t)
    \/ Enqueue(t)
    \/ Touch(t)

\* no inbound request is being processed
Quiet == \A t \in Requests : req[t].pc \in {"idle", "done"}

\* The whole system.
Next ==
    \/ \E t \in Requests : Receive(t) \/ Step(t) \/ Raise(t)
    \/ \E a \in Acks : AckCall(a) \/ AckExec(a)
    \/ GetOutgoing
    \/ HealthCheck
    \/ CleanupOld
    \/ Delete
    \/ Tick

Spec == Init /\ [][Next]_vars

\* The inbound pipeline: concurrent requests, each on its own connection,
\* with collaborators that may raise at any awaited call.
NextPipeline ==
    \/ \E t \in Requests : Receive(t) \/ Step(t) \/ Raise(t)
    \/ Tick

SpecPipeline == Init /\ [][NextPipeline]_vars

\* The delivery side: inbound requests are processed one after the other
\* and without failures, and the relay polls, acknowledges (concurrently)
\* and the housekeeping runs between them.  Of the pipeline only enqueue
\* touches the outbox, so the relay sees the same outbox states as under
\* arbitrary interleaving with the other pipeline steps.
NextRelay ==
    \/ \E t \in Requests : (Quiet /\ Receive(t)) \/ Step(t)
    \/ \E a \in Acks : (Quiet /\ AckCall(a)) \/ (Quiet /\ AckExec(a))
    \/ (Quiet /\ GetOutgoing)
    \/ (Quiet /\ HealthCheck)
    \/ (Quiet /\ CleanupOld)
    \/ (Quiet /\ Tick)

SpecRelay == Init /\ [][NextRelay]_vars

\* The outbox under housekeeping: messages are received one after the
\* other, and polls and cleanup_old run at any point, between the steps of a
\* process_incoming call and between the call and the UPDATE of an
\* acknowledgment.
NextOutbox ==
    \/ \E t \in Requests : (Quiet /\ Receive(t)) \/ Step(t)
    \/ \E a \in Acks : (Quiet /\ AckCall(a)) \/ (Quiet /\ AckExec(a))
    \/ GetOutgoing
    \/ CleanupOld
    \/ (Quiet /\ Tick)

SpecOutbox == Init /\ [][NextOutbox]_vars

\* Conversations deleted under load: concurrent process_incoming calls, and
\* delete(number) at any point between their steps.
NextDelete ==
    \/ \E t \in Requests : Receive(t) \/ Step(t)
    \/ Delete

SpecDelete == Init /\ [][NextDelete]_vars

----------------------------------------------------------------------------
(* One generate_response call on its own: the provider is constructed with
   max_retries in 0..MaxRetries and `run` fixes what each of its completion
   calls does.  Each iteration of the retry loop (the awaited call and the
   sleep that follows it) is one step. *)

ProviderCalls ==
    UNION {{[op |-> "generate_response", max_retries |-> n, run |-> run,
             pc |-> "loop", attempt |-> 0, calls |-> 0, waits |-> <<>>,
             text |-> ""] : run \in [1..n -> ProviderOutcomes]} : n \in 0..MaxRetries}

\* no request, acknowledgment or poll has been made
Dormant ==
    /\ conversations = {}
    /\ messages = {}
    /\ outbox = {}
    /\ sqlite_sequence = [conversations |-> 0, messages |-> 0, outbox |-> 0]
    /\ now = 0
    /\ req = [t \in Requests |-> IdleReq]
    /\ ack = [a \in Acks |-> IdleAck]
    /\ reply = NoReply

\* every component but the one under call is at rest
AtRest == auth = AuthService(<<>>) /\ sms_api_key = "" /\ Dormant

InitProvider == AtRest /\ call \in ProviderCalls

\* (mutant) a rate-limit error does not use up an attempt
ProviderAttemptRateFree ==
    /\ call.op = "generate_response"
    /\ call.pc = "loop"
    /\ call.attempt < call.max_retries
    /\ LET o == call.run[call.attempt + 1]
           e == attempt_result(call.max_retries, o, call.attempt)
       IN  call' =
             CASE e.kind = "return" ->
                    [call EXCEPT !.pc = "returned", !.text = e.text, !.calls = @ + 1]
               [] e.kind = "continue" ->
                    [call EXCEPT !.attempt = IF o = "rate" THEN @ ELSE @ + 1,
                                 !.calls = @ + 1, !.waits = @ \o e.wait_time]
               [] OTHER ->
                    [call EXCEPT !.pc = "after_loop", !.calls = @ + 1]
    /\ UNCHANGED <<auth, sms_api_key, tables, now, req, ack, reply>>

\* one iteration of the retry loop
ProviderAttempt ==
    /\ call.op = "generate_response"
    /\ call.pc = "loop"
    /\ call.attempt < call.max_retries
    /\ LET e == attempt_result(call.max_retries, call.run[call.attempt + 1], call.attempt)
       IN  call' =
             CASE e.kind = "return" ->
                    [call EXCEPT !.pc = "returned", !.text = e.text, !.calls = @ + 1]
               [] e.kind = "continue" ->
                    [call EXCEPT !.attempt = @ + 1, !.calls = @ + 1,
                                 !.waits = @ \o e.wait_time]
               [] e.kind = "break" ->
                    [call EXCEPT !.pc = "after_loop", !.calls = @ + 1]
               [] OTHER ->
                    [call EXCEPT !.pc = "raised", !.calls = @ + 1]
    /\ UNCHANGED <<auth, sms_api_key, tables, now, req, ack, reply>>

\* the statements after the loop: log and return FALLBACK_MESSAGE
ProviderFallback ==
    /\ call.op = "generate_response"
    /\ \/ call.pc = "after_loop"
       \/ call.pc = "loop" /\ call.attempt >= call.max_retries
    /\ call' = [call EXCEPT !.pc = "returned", !.text = FALLBACK_MESSAGE]
    /\ UNCHANGED <<auth, sms_api_key, tables, now, req, ack, reply>>

NextProvider == ProviderAttempt \/ ProviderFallback

SpecProvider == InitProvider /\ [][NextProvider]_vars

\* the event loop resumes the call when the awaited completion (bounded by
\* the client's timeout) or sleep is over
SpecProviderFair == SpecProvider /\ WF_vars(NextProvider)

----------------------------------------------------------------------------
(* AuthService on its own: a service constructed with one of AllowLists, and
   one call of is_authorized or _normalize on one of PhoneInputs. *)

\* the numbers of the specification's example
Configured == <<"+", "1", "5", "5", "5", "1", "2", "3", "4", "5", "6", "7">>
Formatted ==
    <<"+", "1", " ", "(", "5", "5", "5", ")", " ", "1", "2", "3", "-", "4", "5", "6", "7">>
NoPlus == <<"1", "5", "5", "5", "1", "2", "3", "4", "5", "6", "7">>

AuthAlphabet == {"+", "1", " ", "-"}

PhoneInputs ==
    UNION {[1..k -> AuthAlphabet] : k \in 0..MaxLen} \cup {Configured, Formatted, NoPlus}

\* allowed_numbers as AuthService.__init__ may receive it (a list of strings)
AllowLists ==
    {<<>>, <<Configured>>, <<PlusOne>>, <<<<" ", "+", "1", " ">>>>, <<<<"1">>>>,
     <<<<"1">>, PlusOne>>, <<<<>>>>, <<<<>>, PlusOne>>, <<<<" ">>>>, <<<<"-">>>>}

InitAuth ==
    /\ \E allowed_numbers \in AllowLists, phone \in PhoneInputs,
          op \in {"is_authorized", "_normalize"} :
          /\ auth = AuthService(allowed_numbers)
          /\ call = [op |-> op, allowed_numbers |-> allowed_numbers, phone |-> phone,
                     pc |-> "called", result |-> "none"]
    /\ sms_api_key = ""
    /\ Dormant

IsAuthorized ==
    /\ call.op = "is_authorized"
    /\ call.pc = "called"
    /\ call' = [call EXCEPT !.pc = "returned", !.result = is_authorized(auth, call.phone)]
    /\ UNCHANGED <<auth, sms_api_key, tables, now, req, ack, reply>>

Normalize ==
    /\ call.op = "_normalize"
    /\ call.pc = "called"
    /\ call' = [call EXCEPT !.pc = "returned", !.result = normalize(call.phone)]
    /\ UNCHANGED <<auth, sms_api_key, tables, now, req, ack, reply>>

NextAuth == IsAuthorized \/ Normalize

SpecAuth == InitAuth /\ [][NextAuth]_vars

----------------------------------------------------------------------------
(* Delivery *)

\* The relay as a client that polls and acknowledges what it received: it
\* keeps the ids of its last poll in `received` until it has acknowledged
\* them, and `seen` holds every id a poll has returned to it.
RelayIdle == [op |-> "relay", received |-> <<>>, seen |-> {}]

InitDelivery ==
    /\ \E settings \in Settings :
         /\ auth = AuthService(settings.allowed_phone_numbers)
         /\ sms_api_key = settings.sms_api_key
    /\ Dormant
    /\ call = RelayIdle

\* GET /api/sms/outgoing by the relay
RelayPoll ==
    /\ call.op = "relay"
    /\ call.received = <<>>
    /\ \E limit \in PollLimits :
         LET messages_ == get_pending(limit)
             ids == [i \in DOMAIN messages_ |-> messages_[i].id]
         IN  /\ reply' = [op |-> "get_outgoing", limit |-> limit, messages |-> messages_]
             /\ call' = [call EXCEPT !.received = ids,
                                     !.seen = @ \cup {ids[i] : i \in DOMAIN ids}]
    /\ UNCHANGED <<auth, sms_api_key, tables, now, req, ack>>

\* POST /api/sms/outgoing/{id}/ack by the relay for the next entry it received
RelayAcknowledge ==
    /\ call.op = "relay"
    /\ call.received # <<>>
    /\ \E status \in Terminal :
         outbox' = acknowledge_update(Head(call.received), status,
                                      IF status = "sent" THEN now ELSE NULL)
    /\ call' = [call EXCEPT !.received = Tail(@)]
    /\ reply' = NoReply
    /\ UNCHANGED <<auth, sms_api_key, conversations, messages, sqlite_sequence, now, req, ack>>

NextDelivery ==
    \/ \E t \in Requests : (Quiet /\ Receive(t)) \/ Step(t)
    \/ RelayPoll
    \/ RelayAcknowledge
    \/ (Quiet /\ Tick)

SpecDelivery == InitDelivery /\ [][NextDelivery]_vars

\* the relay keeps polling and acknowledges what it received
SpecDeliveryFair ==
    SpecDelivery /\ WF_vars(RelayPoll) /\ WF_vars(RelayAcknowledge)

----------------------------------------------------------------------------
(* Properties *)

\* the outbox entry with this id, if the table holds it
Entry(id) == {o \in outbox : o.id = id}

\* acknowledgment a runs its UPDATE in this step
Executes(a) == ack[a].pc = "called" /\ ack'[a].pc = "done"

\* an earlier acknowledgment of the same entry was applied
AppliedBefore(a) ==
    \E b \in Acks : /\ b # a
                    /\ ack[b].pc = "done"
                    /\ ack[b].message_id = ack[a].message_id
                    /\ ack[b].success = "true"

\* C1: acknowledging an entry twice, with the same or different terminal
\* status, changes its status exactly once: the call that finds the entry
\* pending returns true and sets the status (and sent_at) it was called
\* with; a call made after an applied one returns false and leaves the
\* outbox, status and sent_at included, exactly as it was.
AcknowledgeTwice ==
    [][\A a \in Acks : Executes(a) =>
         \A o \in Entry(ack[a].message_id) :
            /\ o.status = "pending" =>
                 /\ ack'[a].success = "true"
                 /\ outbox' = (outbox \ {o}) \cup
                        {[o EXCEPT !.status = ack[a].status, !.sent_at = ack[a].now]}
            /\ AppliedBefore(a) =>
                 /\ ack'[a].success = "false"
                 /\ outbox' = outbox]_vars

\* C1 witness: an entry acknowledged as failed and then, at a later time,
\* as sent: the second call was not applied and the entry keeps failed / NULL
AcknowledgeTwiceWitness ==
    \E a, b \in Acks : \E o \in outbox :
        /\ ack[a].pc = "done" /\ ack[b].pc = "done"
        /\ ack[a].message_id = o.id /\ ack[b].message_id = o.id
        /\ ack[a].status = "failed" /\ ack[a].saw_pending /\ ack[a].success = "true"
        /\ ack[b].status = "sent" /\ ~ack[b].saw_pending /\ ack[b].success = "false"
        /\ ack[b].now > o.created_at
        /\ o.status = "failed" /\ o.sent_at = NULL

\* C2: the status of an outbox entry only ever goes from pending to sent or
\* from pending to failed, a resolved entry keeps its status, and the
\* acknowledgment of an absent or resolved entry returns false and changes
\* nothing.
StatusTransitions ==
    [][/\ \A o \in outbox : \A p \in outbox' :
            p.id = o.id =>
               \/ p.status = o.status
               \/ o.status = "pending" /\ p.status \in Terminal
       /\ \A a \in Acks :
            (Executes(a) /\ \A o \in Entry(ack[a].message_id) : o.status # "pending") =>
               /\ ack'[a].success = "false"
               /\ outbox' = outbox]_vars

\* C2 witness: an acknowledgment of a purged entry returned false while
\* another entry is pending
StatusTransitionsWitness ==
    \E a \in Acks :
        /\ ack[a].pc = "done" /\ ack[a].success = "false"
        /\ Entry(ack[a].message_id) = {}
        /\ ack[a].message_id <= sqlite_sequence.outbox
        /\ \E o \in outbox : o.status = "pending"

\* the acknowledgments of entry id that were applied
Winners(id) ==
    {c \in Acks : ack[c].pc = "done" /\ ack[c].message_id = id /\ ack[c].success = "true"}

\* C3: when acknowledgments of one pending entry run concurrently (each was
\* called while the entry was still pending), exactly one of them returns
\* true and the entry carries that call's status and sent_at; the others
\* return false.
ConcurrentAcknowledge ==
    \A a, b \in Acks :
        ( /\ a # b
          /\ ack[a].pc = "done" /\ ack[b].pc = "done"
          /\ ack[a].message_id = ack[b].message_id
          /\ ack[a].saw_pending /\ ack[b].saw_pending ) =>
        /\ Cardinality(Winners(ack[a].message_id)) = 1
        /\ \A w \in Winners(ack[a].message_id) : \A o \in Entry(ack[a].message_id) :
              o.status = ack[w].status /\ o.sent_at = ack[w].now

\* C3 witness: two acknowledgments with different statuses raced and the one
\* called second won
ConcurrentAcknowledgeWitness ==
    /\ ack[1].pc = "done" /\ ack[2].pc = "done"
    /\ ack[1].message_id = ack[2].message_id
    /\ ack[1].saw_pending /\ ack[2].saw_pending
    /\ ack[1].status # ack[2].status
    /\ ack[1].success = "false" /\ ack[2].success = "true"
    /\ \E o \in Entry(ack[2].message_id) : o.status = ack[2].status

----------------------------------------------------------------------------
(* Properties of the inbound path *)

\* process_incoming was entered for request t (the API key was accepted)
Entered(t) == req[t].steps # <<>>

\* request t failed inside find_or_create with the UNIQUE violation
FailedInFindOrCreate(t) ==
    /\ req[t].pc = "done"
    /\ req[t].raised = "IntegrityError"
    /\ req[t].steps = <<"auth">>

\* C4: concurrent find_or_create calls for one new phone number all complete
\* without failing and all callers receive the same conversation id.
FindOrCreateNeverFails ==
    /\ \A t \in Requests : ~FailedInFindOrCreate(t)
    /\ \A t, u \in Requests :
          ( /\ req[t].conversation # 0 /\ req[u].conversation # 0
            /\ req[t].phone_number = req[u].phone_number ) =>
          req[t].conversation = req[u].conversation

\* C5: there is at most one Conversation row per phone number.
OneConversationPerPhone ==
    \A c, d \in conversations : c.phone_number = d.phone_number => c = d

\* C5 witness: two calls raced on a new number; the INSERT of one was refused
\* and the number has its single row
OneConversationPerPhoneWitness ==
    \E t, u \in Requests :
        /\ t # u
        /\ req[t].phone_number = req[u].phone_number
        /\ FailedInFindOrCreate(t)
        /\ req[u].conversation # 0
        /\ Cardinality(find_by_phone(req[t].phone_number)) = 1

\* t is a proper prefix of s
ProperPrefix(t, s) == Len(t) < Len(s) /\ t = SubSeq(s, 1, Len(t))

\* C6: process_incoming never propagates an exception: when a collaborator
\* call raises, that call has no effect, process_incoming returns false with
\* only the steps before the failing one performed, and it does nothing after.
NeverPropagates ==
    /\ [](\A t \in Requests : req[t].raised # "" =>
            /\ req[t].pc = "done"
            /\ req[t].result = "false"
            /\ ProperPrefix(req[t].steps, Pipeline))
    /\ [][\A t \in Requests :
            /\ (req[t].raised = "" /\ req'[t].raised # "") =>
                  /\ tables' = tables
                  /\ req'[t].steps = req[t].steps
                  /\ req'[t].wrote = req[t].wrote
            /\ req[t].raised # "" => req'[t] = req[t]]_vars

\* C6 witness: enqueue raised after both messages were stored
NeverPropagatesWitness ==
    \E t \in Requests :
        /\ req[t].raised = "Exception"
        /\ req[t].steps = <<"auth", "find_or_create", "store_user", "get_history",
                            "generate_response", "store_assistant">>
        /\ req[t].result = "false"
        /\ Len(req[t].wrote) = 2
        /\ outbox = {}

\* request t came from a sender is_authorized rejects
Unauthorized(t) == Entered(t) /\ ~is_authorized(auth, req[t].phone_number)

\* C7: for an unauthorized sender process_incoming returns false at once,
\* leaves the conversations, messages and outbox tables unchanged, and never
\* reaches the AI provider.
UnauthorizedNoEffect ==
    /\ [](\A t \in Requests : Unauthorized(t) =>
            /\ req[t].pc = "done"
            /\ req[t].result = "false"
            /\ req[t].steps = <<"auth">>
            /\ req[t].wrote = <<>>)
    /\ []((\A t \in Requests : Entered(t) => Unauthorized(t)) =>
            conversations = {} /\ messages = {} /\ outbox = {})
    /\ [][\A t \in Requests :
            (~Entered(t) /\ Unauthorized(t)') => tables' = tables]_vars

\* C7 witness: an unauthorized message was rejected while an authorized one
\* had already stored its conversation
UnauthorizedNoEffectWitness ==
    \E t, u \in Requests :
        /\ Unauthorized(t) /\ req[t].result = "false"
        /\ req[t].phone_number = PlusTwo
        /\ Entered(u) /\ ~Unauthorized(u) /\ u < t
        /\ Cardinality(conversations) = 1

\* C8: POST /api/sms/incoming answers ok = false for an unauthorized sender,
\* as it does for a bad API key.
UnauthorizedAnswersNotOk ==
    \A t \in Requests : (req[t].pc = "done" /\ Unauthorized(t)) => req[t].ok = "false"

\* the order of the pipeline as the specification states it
StatedOrder ==
    <<"auth", "store_user", "get_history", "generate_response",
      "store_assistant", "enqueue", "touch">>

\* the steps of the stated order among those a request performed
Stated(steps) == SelectSeq(steps, LAMBDA s : s # "find_or_create")

Prefix(t, s) == Len(t) <= Len(s) /\ t = SubSeq(s, 1, Len(t))

Performed(t, step) == \E i \in DOMAIN req[t].steps : req[t].steps[i] = step

\* the i-th message request t stored has this role and status
Wrote(t, i, role, status) ==
    \E m \in messages :
        /\ m.id = req[t].wrote[i]
        /\ m.conversation_id = req[t].conversation
        /\ m.role = role /\ m.status = status

\* C9: for an authorized sender the steps happen strictly in the order
\* authorization, store user message, fetch history, generate reply, store
\* assistant message (pending), enqueue, touch; one step is awaited at a
\* time, and process_incoming returns true only when all of them completed.
PipelineOrder ==
    /\ \A t \in Requests : (Entered(t) /\ ~Unauthorized(t)) =>
         LET done == Stated(req[t].steps)
         IN  /\ Prefix(done, StatedOrder)
             /\ req[t].result = "true" => done = StatedOrder
             /\ req[t].pc # "done" =>
                   \/ /\ req[t].pc \in {"find_or_create", "insert_conversation"}
                      /\ done = <<"auth">>
                   \/ /\ Performed(t, "find_or_create")
                      /\ Len(done) < Len(StatedOrder)
                      /\ req[t].pc = StatedOrder[Len(done) + 1]
             /\ Len(req[t].wrote) = (IF Performed(t, "store_user") THEN 1 ELSE 0)
                                  + (IF Performed(t, "store_assistant") THEN 1 ELSE 0)
             /\ Performed(t, "store_user") => Wrote(t, 1, "user", "received")
             /\ Performed(t, "store_assistant") =>
                   /\ Wrote(t, 2, "assistant", "pending")
                   /\ req[t].wrote[1] < req[t].wrote[2]
    /\ Cardinality(outbox) = Cardinality({t \in Requests : Performed(t, "enqueue")})

\* C9 witness: one message went through the whole pipeline and returned true
\* while another was waiting for the provider
PipelineOrderWitness ==
    \E t, u \in Requests :
        /\ req[t].result = "true"
        /\ Stated(req[t].steps) = StatedOrder
        /\ req[u].pc = "generate_response"
        /\ Cardinality(outbox) = 1

----------------------------------------------------------------------------
(* The whole path *)

\* the acknowledgments called for entry id, in progress or returned
AcksOn(id) == {a \in Acks : ack[a].pc # "idle" /\ ack[a].message_id = id}

\* request t is the only message received, it was processed without a
\* failure in open mode, and nothing was purged from the outbox
OnlyMessage(t) ==
    /\ auth.open_mode
    /\ req[t].pc = "done" /\ req[t].result = "true"
    /\ \A u \in Requests : u # t => req[u].pc = "idle"
    /\ Cardinality(outbox) = sqlite_sequence.outbox

\* entry o was acknowledged as sent: the first acknowledgment called for it
\* found it pending, one has returned, and none asked for failed
AcknowledgedSent(o) ==
    /\ \E a \in AcksOn(o.id) : ack[a].saw_pending /\ \A b \in AcksOn(o.id) : a <= b
    /\ \E a \in AcksOn(o.id) : ack[a].pc = "done"
    /\ \A a \in AcksOn(o.id) : ack[a].status = "sent"

\* C10: from empty tables in open mode, one process_incoming(p, c) whose
\* provider returns r leaves one conversation for p, the two messages
\* user/c/received and assistant/r/pending in it, and one pending outbox
\* entry for p with content r; get_outgoing_messages returns exactly that
\* entry; once acknowledged as sent it is sent with sent_at set and health
\* reports 0 pending.
EndToEnd ==
    \A t \in Requests : OnlyMessage(t) =>
        /\ \E conv \in conversations : \E m1, m2 \in messages :
              /\ conversations = {conv} /\ conv.phone_number = req[t].phone_number
              /\ messages = {m1, m2} /\ m1.id < m2.id
              /\ m1.conversation_id = conv.id /\ m2.conversation_id = conv.id
              /\ m1.role = "user" /\ m1.content = req[t].content
              /\ m1.status = "received"
              /\ m2.role = "assistant" /\ m2.content = req[t].response
              /\ m2.status = "pending"
        /\ \E o \in outbox :
              /\ outbox = {o}
              /\ o.phone_number = req[t].phone_number
              /\ o.content = req[t].response
              /\ (\A a \in AcksOn(o.id) : ack[a].pc # "done") =>
                    /\ o.status = "pending" /\ o.sent_at = NULL
                    /\ reply.op = "get_outgoing" => reply.messages = <<o>>
                    /\ reply.op = "health" => reply.pending_outbox = 1
              /\ AcknowledgedSent(o) =>
                    /\ o.status = "sent" /\ o.sent_at # NULL
                    /\ o.sent_at >= o.created_at
                    /\ \E a \in AcksOn(o.id) : ack[a].success = "true"
                    /\ reply.op = "get_outgoing" => reply.messages = <<>>
                    /\ reply.op = "health" => reply.pending_outbox = 0

\* C10 witness: the message was processed, its entry acknowledged as sent at
\* a later time, and health has just reported 0 pending entries
EndToEndWitness ==
    \E t \in Requests : \E o \in outbox :
        /\ OnlyMessage(t)
        /\ req[t].response = Reply
        /\ AcknowledgedSent(o)
        /\ o.status = "sent" /\ o.sent_at > o.created_at
        /\ reply.op = "health" /\ reply.pending_outbox = 0

----------------------------------------------------------------------------
(* Properties of generate_response *)

Retryable == {"rate", "api"}

\* the provider calls of a run that end the retry loop: the first one whose
\* outcome is not a retryable error
Decisive(run) ==
    {k \in DOMAIN run : run[k] \notin Retryable /\ \A j \in 1..(k - 1) : run[j] \in Retryable}

Returned == call.op = "generate_response" /\ call.pc = "returned"

\* C11: generate_response never raises and always returns a non-empty
\* string: the provider's content when an attempt succeeds with non-empty
\* content, the fixed fallback message in every other case (empty body,
\* attempts exhausted, any other exception).
AlwaysUsableString ==
    call.op = "generate_response" =>
        /\ call.pc # "raised"
        /\ call.pc = "returned" =>
              /\ call.text # ""
              /\ call.text = (IF \E k \in Decisive(call.run) : call.run[k] = "content"
                              THEN Reply ELSE FALLBACK_MESSAGE)
              /\ call.max_retries = max_retries =>
                    call.text = generate_response(call.run).text

\* C11 witness: a rate limit, then an unexpected exception: the fallback
AlwaysUsableStringWitness ==
    /\ Returned
    /\ call.max_retries = 3
    /\ call.run[1] = "rate" /\ call.run[2] = "other"
    /\ call.text = FALLBACK_MESSAGE

\* C12: one generate_response call invokes the provider at most max_retries
\* times whatever mix of rate-limit and transient errors occurs (each error
\* of either class uses up one attempt), and the call always terminates.
AttemptBudget ==
    /\ [](call.op = "generate_response" =>
            /\ call.calls <= call.max_retries
            /\ call.pc = "loop" => call.calls = call.attempt
            /\ (Returned /\ \A k \in DOMAIN call.run : call.run[k] \in Retryable) =>
                  call.calls = call.max_retries)
    /\ <>Returned

\* C12 witness: rate-limit and transient errors mixed, all attempts used
AttemptBudgetWitness ==
    /\ Returned
    /\ call.max_retries = 3
    /\ call.run = <<"rate", "api", "rate">>
    /\ call.calls = 3
    /\ call.text = FALLBACK_MESSAGE

RECURSIVE Sum(_)
Sum(s) == IF s = <<>> THEN 0 ELSE Head(s) + Sum(Tail(s))

\* the provider raises a transient API error on every attempt
AlwaysApiError ==
    /\ call.op = "generate_response"
    /\ call.max_retries = 3
    /\ \A k \in DOMAIN call.run : call.run[k] = "api"

\* C13: with max_retries = 3 and a transient API error on every attempt,
\* generate_response backs off 1 s after attempt 0, 2 s after attempt 1 and
\* not at all after the last attempt, 3 s in total, and returns the fallback
\* string without raising.
TransientBackoff ==
    AlwaysApiError =>
        /\ call.pc \in {"loop", "returned"}
        /\ call.waits = CASE call.attempt = 0 -> <<>>
                          [] call.attempt = 1 -> <<1>>
                          [] OTHER -> <<1, 2>>
        /\ call.pc = "returned" =>
              /\ call.text = FALLBACK_MESSAGE
              /\ call.calls = 3
              /\ Sum(call.waits) = 3

\* C13 witness: the three attempts failed and the fallback was returned
TransientBackoffWitness ==
    /\ AlwaysApiError
    /\ call.pc = "returned"
    /\ call.waits = <<1, 2>>
    /\ call.text = FALLBACK_MESSAGE

\* the provider call about to be made is answered with a rate-limit error
RateLimited ==
    /\ call.op = "generate_response"
    /\ call.pc = "loop"
    /\ call.attempt < call.max_retries
    /\ call.run[call.attempt + 1] = "rate"

\* the wait the specification states for a rate limit at attempt index a
StatedRateWait(a) == Min(2 ^ (a + 2), 30)

\* C20 as stated: on a rate-limit error at attempt index a, generate_response
\* waits min(2^(a+2), 30) seconds and then retries the provider call.
RateLimitWaitsThenRetries ==
    [][RateLimited =>
         /\ call'.waits = Append(call.waits, StatedRateWait(call.attempt))
         /\ call'.pc = "loop" /\ call'.attempt < call'.max_retries]_vars

\* C20 amended: on a rate-limit error at attempt index a, generate_response
\* waits min(2^(a+2), 30) seconds (4, 8, 16, 30 for a = 0, 1, 2, 3); it
\* then retries the provider call if an attempt remains (a < max_retries - 1),
\* and after the last attempt it has waited all the same and goes on to
\* return the fallback without another provider call.
RateLimitWait ==
    [][RateLimited =>
         /\ call'.waits = Append(call.waits, StatedRateWait(call.attempt))
         /\ call'.waits[Len(call'.waits)] =
               (CASE call.attempt = 0 -> 4 [] call.attempt = 1 -> 8
                  [] call.attempt = 2 -> 16 [] OTHER -> 30)
         /\ call'.calls = call.calls + 1
         /\ call'.pc = "loop" /\ call'.attempt = call.attempt + 1
         /\ (call'.attempt < call'.max_retries) <=> (call.attempt < call.max_retries - 1)]_vars

\* C20 witness: four rate limits in a row, the last wait capped at 30 s and
\* followed by no retry
RateLimitWaitWitness ==
    /\ call.op = "generate_response"
    /\ call.max_retries = 4
    /\ call.pc = "returned"
    /\ call.waits = <<4, 8, 16, 30>>
    /\ call.calls = 4
    /\ call.text = FALLBACK_MESSAGE

----------------------------------------------------------------------------
(* Properties of get_history *)

\* the limits get_history is examined with
HistoryLimits == 0..(max_context + 1)

InConversation(cid) == {m \in messages : m.conversation_id = cid}

\* h is the n most recent messages of conversation cid, oldest first
MostRecent(h, cid, n) ==
    /\ Len(h) = Min(Cardinality(InConversation(cid)), n)
    /\ \A i \in DOMAIN h : h[i] \in InConversation(cid)
    /\ \A i, j \in DOMAIN h : i < j => h[i] # h[j] /\ h[i].timestamp <= h[j].timestamp
    /\ \A m \in InConversation(cid) :
          (\A i \in DOMAIN h : h[i] # m) => \A i \in DOMAIN h : m.timestamp <= h[i].timestamp

\* C14: get_history(conversation_id, N) on a conversation of M messages
\* returns the N most recent messages in ascending timestamp order when
\* M > N and all M in ascending timestamp order when M <= N: no message
\* left out is more recent than one returned.
HistoryWindow ==
    /\ [](\A c \in conversations : \A n \in HistoryLimits :
             MostRecent(get_history(c.id, n), c.id, n))
    /\ [][\A t \in Requests :
            (req[t].pc = "get_history" /\ req'[t].pc = "generate_response") =>
               MostRecent(req'[t].history, req[t].conversation, max_context)]_vars

\* C14 witness: process_incoming fetched a history of max_context messages
\* from a conversation holding more, and what it got spans two timestamps
HistoryWindowWitness ==
    \E t \in Requests :
        /\ req[t].pc = "generate_response"
        /\ Len(req[t].history) = max_context
        /\ Cardinality(InConversation(req[t].conversation)) > max_context
        /\ req[t].history[1].timestamp < req[t].history[max_context].timestamp

----------------------------------------------------------------------------
(* Properties of AuthService *)

Answered(op) == call.op = op /\ call.pc = "returned"

\* the entries of an allowlist, and those that are not the empty string
Entries(allowed_numbers) == {allowed_numbers[i] : i \in DOMAIN allowed_numbers}
NonEmptyEntries(allowed_numbers) == {n \in Entries(allowed_numbers) : n # <<>>}

\* C15 as stated: is_authorized returns true for every number when the
\* allowlist is empty, and with a non-empty allowlist it returns true iff the
\* normalized number is in the set of the normalized configured numbers.
AuthorizedIffListed ==
    Answered("is_authorized") =>
        /\ call.result \in BOOLEAN
        /\ call.allowed_numbers = <<>> => call.result = TRUE
        /\ call.allowed_numbers # <<>> =>
              (call.result <=>
                  normalize(call.phone) \in
                      {normalize(n) : n \in Entries(call.allowed_numbers)})

\* C15 amended: entries that are the empty string are ignored.  is_authorized
\* never raises; it returns true for every number when the allowlist has no
\* non-empty entry (open mode), and otherwise true iff the normalized number
\* is in the set of the normalized non-empty entries.
AuthorizedIffConfigured ==
    Answered("is_authorized") =>
        /\ call.result \in BOOLEAN
        /\ auth.open_mode <=> NonEmptyEntries(call.allowed_numbers) = {}
        /\ auth.open_mode => call.result = TRUE
        /\ ~auth.open_mode =>
              (call.result <=>
                  normalize(call.phone) \in
                      {normalize(n) : n \in NonEmptyEntries(call.allowed_numbers)})

\* C15 witness: the allowlist holds an empty string and "+1"; a number
\* without a digit, which normalizes to the empty string, was refused
AuthorizedIffConfiguredWitness ==
    /\ Answered("is_authorized")
    /\ call.allowed_numbers = <<<<>>, PlusOne>>
    /\ call.phone = <<"-">>
    /\ call.result = FALSE

\* the first character of s that is not white space is a "+"
StartsWithPlus(s) ==
    \E i \in DOMAIN s : s[i] = "+" /\ \A j \in 1..(i - 1) : s[j] \in Whitespace

\* C16: normalization removes every character that is not a digit and keeps
\* one leading "+" exactly when the trimmed input starts with "+"; so with
\* "+15551234567" configured, "+1 (555) 123-4567" is authorized and
\* "15551234567" is not.
NormalizationKeepsLeadingPlus ==
    /\ Answered("_normalize") =>
          LET r == call.result
              digits == SelectSeq(call.phone, LAMBDA c : c \in Digits)
          IN  r = (IF StartsWithPlus(call.phone) THEN <<"+">> ELSE <<>>) \o digits
    /\ (Answered("is_authorized") /\ call.allowed_numbers = <<Configured>>) =>
          /\ call.phone = Configured => call.result = TRUE
          /\ call.phone = Formatted => call.result = TRUE
          /\ call.phone = NoPlus => call.result = FALSE

\* C16 witness: the formatted number was authorized against the configured one
NormalizationKeepsLeadingPlusWitness ==
    /\ Answered("is_authorized")
    /\ call.allowed_numbers = <<Configured>>
    /\ call.phone = Formatted
    /\ call.result = TRUE

----------------------------------------------------------------------------
(* Properties of the outbox under polls and housekeeping *)

Polled == reply.op = "get_outgoing"

PendingEntries == {o \in outbox : o.status = "pending"}

\* C17: get_pending(limit) returns only pending entries, at most limit of
\* them, oldest created first, and leaves every outbox entry unchanged and
\* unreserved: a second poll with nothing in between returns the same
\* sequence.
GetPendingReadsOnly ==
    /\ [](Polled =>
            LET h == reply.messages
            IN  /\ Len(h) = Min(Cardinality(PendingEntries), reply.limit)
                /\ \A i \in DOMAIN h : h[i] \in PendingEntries
                /\ \A i, j \in DOMAIN h :
                      i < j => h[i] # h[j] /\ h[i].created_at <= h[j].created_at
                /\ \A o \in PendingEntries :
                      (\A i \in DOMAIN h : h[i] # o) =>
                          \A i \in DOMAIN h : h[i].created_at <= o.created_at
                /\ get_pending(reply.limit) = h)
    /\ [][reply'.op = "get_outgoing" =>
            /\ tables' = tables
            /\ Polled =>
                  \A i \in DOMAIN reply.messages \cap DOMAIN reply'.messages :
                      reply'.messages[i] = reply.messages[i]]_vars

\* C17 witness: a poll with limit 1 while two entries are pending, the
\* second of them enqueued by a call that is still running
GetPendingReadsOnlyWitness ==
    /\ Polled
    /\ reply.limit = 1
    /\ Cardinality(PendingEntries) = 2
    /\ \E o \in PendingEntries :
          reply.messages = <<o>> /\ \A q \in PendingEntries : q # o => o.created_at < q.created_at
    /\ \E t \in Requests : req[t].pc = "touch"

\* C18: cleanup_old(days) deletes only entries that are resolved (sent or
\* failed) and older than the retention window, returns the number it
\* deleted, and never deletes a pending entry, whatever it runs between.
CleanupOnlyResolved ==
    [][reply'.op = "cleanup_old" =>
         LET gone == outbox \ outbox'
         IN  /\ outbox' \subseteq outbox
             /\ \A o \in gone :
                   /\ o.status \in {"sent", "failed"}
                   /\ o.created_at < now - reply'.days * TicksPerDay
             /\ reply'.count = Cardinality(gone)
             /\ \A o \in outbox : o.status = "pending" => o \in outbox'
             /\ conversations' = conversations /\ messages' = messages]_vars

\* C18 witness: cleanup_old has just deleted a resolved entry and kept a
\* pending entry of the same age, while an acknowledgment was in progress
CleanupOnlyResolvedWitness ==
    /\ reply.op = "cleanup_old"
    /\ reply.count = 1
    /\ \E o \in outbox :
          o.status = "pending" /\ o.created_at < now - reply.days * TicksPerDay
    /\ \E a \in Acks : ack[a].pc = "called"

\* C19: polling and acknowledging never change a Conversation or Message
\* row, only outbox entries: the assistant message of an acknowledged entry
\* keeps the status it was stored with.
RelayPathWritesOutboxOnly ==
    /\ [][(reply'.op = "get_outgoing" \/ ack' # ack) =>
            /\ conversations' = conversations
            /\ messages' = messages
            /\ sqlite_sequence' = sqlite_sequence]_vars
    /\ [](\A m \in messages : m.role = "assistant" => m.status = "pending")

\* C19 witness: the entry was acknowledged as sent and the assistant message
\* it mirrors is still pending
RelayPathWritesOutboxOnlyWitness ==
    \E o \in outbox : \E m \in messages : \E a \in Acks :
        /\ ack[a].pc = "done" /\ ack[a].message_id = o.id /\ ack[a].success = "true"
        /\ o.status = "sent"
        /\ m.role = "assistant" /\ m.content = o.content
        /\ m.status = "pending"

\* the provider call of this attempt raises an error of another class
Unexpected ==
    /\ call.op = "generate_response"
    /\ call.pc = "loop"
    /\ call.attempt < call.max_retries
    /\ call.run[call.attempt + 1] = "other"

\* C21: when a provider call raises an error that is neither a rate-limit
\* nor a transient API error, generate_response leaves the retry loop at
\* once: no further provider call, no backoff wait, and the fallback string
\* is returned even if attempts remain.
NonRetryableAbandons ==
    /\ [][Unexpected =>
            /\ call'.pc = "after_loop"
            /\ call'.calls = call.calls + 1
            /\ call'.waits = call.waits]_vars
    /\ [][(call.op = "generate_response" /\ call.pc = "after_loop") =>
            /\ call'.pc = "returned"
            /\ call'.text = FALLBACK_MESSAGE
            /\ call'.calls = call.calls
            /\ call'.waits = call.waits]_vars
    /\ [](Returned =>
            \A k \in Decisive(call.run) : call.run[k] = "other" =>
                /\ call.calls = k
                /\ Len(call.waits) = k - 1
                /\ call.text = FALLBACK_MESSAGE)

\* C21 witness: the second of four attempts raised an unexpected error; the
\* call returned the fallback after two provider calls and the one wait of
\* the first attempt
NonRetryableAbandonsWitness ==
    /\ Returned
    /\ call.max_retries = 4
    /\ call.run[1] = "api" /\ call.run[2] = "other" /\ call.run[3] = "content"
    /\ call.calls = 2
    /\ call.waits = <<1>>
    /\ call.text = FALLBACK_MESSAGE

\* the enqueue of request t raised after its assistant message was stored
FailedInEnqueue(t) ==
    /\ req[t].raised # ""
    /\ req[t].steps = <<"auth", "find_or_create", "store_user", "get_history",
                        "generate_response", "store_assistant">>

AssistantMessages == {m \in messages : m.role = "assistant"}

\* C22: when enqueue fails after the assistant message was stored,
\* process_incoming returns false, the user message and the assistant message
\* (status pending) it wrote stay in the store, and no outbox entry
\* corresponds to that assistant message.
PartialStateKept ==
    /\ [](\A t \in Requests : FailedInEnqueue(t) =>
            /\ req[t].pc = "done"
            /\ req[t].result = "false"
            /\ Len(req[t].wrote) = 2
            /\ \E m \in messages :
                  /\ m.id = req[t].wrote[1]
                  /\ m.role = "user" /\ m.content = req[t].content
                  /\ m.conversation_id = req[t].conversation
            /\ \E m \in messages :
                  /\ m.id = req[t].wrote[2]
                  /\ m.role = "assistant" /\ m.status = "pending"
                  /\ m.content = req[t].response
                  /\ m.conversation_id = req[t].conversation)
    /\ [](Cardinality(AssistantMessages) >=
              Cardinality(outbox) + Cardinality({t \in Requests : FailedInEnqueue(t)}))
    /\ [][\A t \in Requests :
            (req[t].pc = "enqueue" /\ req'[t].raised # "") =>
                /\ FailedInEnqueue(t)'
                /\ messages' = messages
                /\ outbox' = outbox]_vars

\* C22 witness: one message was answered and enqueued, the enqueue of the
\* other failed: two assistant messages, one outbox entry
PartialStateKeptWitness ==
    \E t, u \in Requests :
        /\ FailedInEnqueue(t)
        /\ req[u].pc = "done" /\ req[u].result = "true"
        /\ Cardinality(AssistantMessages) = 2
        /\ Cardinality(outbox) = 1

\* the provider fails on every attempt of `run`, or with an error that is
\* not retried
PersistentFailure(run) == \A k \in Decisive(run) : run[k] = "other"

\* request t got the fallback message from the provider and no storage call
\* of it raised
AnsweredWithFallback(t) ==
    /\ req[t].pc = "done"
    /\ req[t].raised = ""
    /\ ~Unauthorized(t)
    /\ req[t].response = FALLBACK_MESSAGE

\* C23: when the provider fails persistently and storage works,
\* process_incoming for an authorized sender returns true, and the fallback
\* message is stored as the assistant message and enqueued as a pending
\* outbox entry for that sender.
FallbackDelivered ==
    /\ \A run \in ProviderRuns :
          PersistentFailure(run) => generate_response(run).text = FALLBACK_MESSAGE
    /\ \A t \in Requests : AnsweredWithFallback(t) =>
          /\ req[t].result = "true"
          /\ req[t].steps = Pipeline
          /\ \E m \in messages :
                /\ m.id = req[t].wrote[2]
                /\ m.conversation_id = req[t].conversation
                /\ m.role = "assistant" /\ m.status = "pending"
                /\ m.content = FALLBACK_MESSAGE
    /\ \A phone_number \in PhoneNumbers :
          Cardinality({o \in outbox : /\ o.phone_number = phone_number
                                      /\ o.content = FALLBACK_MESSAGE
                                      /\ o.status = "pending"})
            >= Cardinality({t \in Requests : /\ AnsweredWithFallback(t)
                                             /\ req[t].phone_number = phone_number})

\* C23 witness: two messages of two senders, one answered by the provider and
\* one with the fallback
FallbackDeliveredWitness ==
    \E t, u \in Requests :
        /\ AnsweredWithFallback(t) /\ req[t].result = "true"
        /\ req[u].pc = "done" /\ req[u].result = "true" /\ req[u].response = Reply
        /\ req[t].phone_number # req[u].phone_number
        /\ \E o \in outbox :
              o.phone_number = req[t].phone_number /\ o.content = FALLBACK_MESSAGE

\* C24: in every reachable state an outbox entry has a sent time if and only
\* if its status is sent; pending and failed entries carry none.
SentAtIffSent ==
    \A o \in outbox :
        /\ o.sent_at # NULL <=> o.status = "sent"
        /\ o.status \in {"pending", "failed"} => o.sent_at = NULL
        /\ o.status = "sent" => o.sent_at \in Times

\* C24 witness: one entry acknowledged as sent, one as failed
SentAtIffSentWitness ==
    \E o, p \in outbox :
        /\ o.status = "sent" /\ o.sent_at # NULL
        /\ p.status = "failed" /\ p.sent_at = NULL

\* the conversations a message row refers to
Owners(m) == {c \in conversations : c.id = m.conversation_id}

\* the conversation request t works on is no longer in the table
ConversationDeleted(t) ==
    /\ req[t].conversation # 0
    /\ \A c \in conversations : c.id # req[t].conversation

\* C25: each message belongs to exactly one existing conversation;
\* delete(number) returns whether a conversation existed and removes it with
\* all of its messages and nothing else, leaving the outbox untouched; a
\* process_incoming call in flight for the deleted conversation stores no
\* message for it.
MessagesFollowConversation ==
    /\ [](\A m \in messages : Cardinality(Owners(m)) = 1)
    /\ [][reply'.op = "delete" =>
            LET gone == find_by_phone(reply'.phone_number)
            IN  /\ reply'.existed = (gone # {})
                /\ conversations' = conversations \ gone
                /\ \A c \in conversations' : c.phone_number # reply'.phone_number
                /\ messages' = {m \in messages : Owners(m) \cap gone = {}}
                /\ outbox' = outbox
                /\ sqlite_sequence' = sqlite_sequence]_vars
    /\ [][\A t \in Requests :
            (ConversationDeleted(t) /\ req'[t] # req[t]) =>
                /\ messages' = messages
                /\ req[t].pc \in {"store_user", "store_assistant"} =>
                      req'[t].raised = "IntegrityError" /\ req'[t].result = "false"]_vars
    /\ [](\A t \in Requests : ConversationDeleted(t) =>
            \A m \in messages : m.conversation_id # req[t].conversation)

\* C25 witness: the conversation was deleted while the provider was
\* generating; the user message went with it, storing the assistant message
\* failed, and a later message of the same number got a new conversation
MessagesFollowConversationWitness ==
    \E t, u \in Requests :
        /\ ConversationDeleted(t)
        /\ req[t].raised = "IntegrityError"
        /\ req[t].steps = <<"auth", "find_or_create", "store_user", "get_history",
                            "generate_response">>
        /\ req[u].phone_number = req[t].phone_number
        /\ req[u].conversation > req[t].conversation
        /\ \E m \in messages : m.conversation_id = req[u].conversation

\* the message row request t stored for the sender
OwnMessage(t) == {m \in messages : m.id = req[t].wrote[1]}

\* the clock did not stand still or step back before request t stored its
\* message: the row is newer than every row its conversation held before
StoredLatest(t) ==
    \A m \in OwnMessage(t) : \A q \in InConversation(m.conversation_id) :
        q.id < m.id => q.timestamp < m.timestamp

\* C26: for every process_incoming call of an authorized sender (max_context
\* >= 1), also with concurrent calls for the same number, the history passed
\* to the provider contains the user message the call has just stored.
HistoryHasOwnMessage ==
    \A t \in Requests :
        (req[t].pc = "generate_response" /\ StoredLatest(t)) =>
            \E i \in DOMAIN req[t].history : req[t].history[i].id = req[t].wrote[1]

\* the pending entries a poll serves before the pending entry o
Ahead(o) ==
    {p \in PendingEntries :
        p.created_at < o.created_at \/ (p.created_at = o.created_at /\ p.id < o.id)}

Enqueued(id) == \E o \in outbox : o.id = id

Delivered(id) ==
    /\ id \in call.seen
    /\ \E o \in outbox : o.id = id /\ o.status \in Terminal

\* C27: if the relay keeps polling with a limit >= 1 and acknowledges every
\* entry it receives, every enqueued outbox entry is eventually returned by
\* a poll and eventually leaves the pending state, also while new entries
\* keep being enqueued: entries enqueued later never get ahead of a pending
\* entry, and every poll returns the entry nothing is ahead of.
EventuallyDelivered ==
    /\ [][\A o \in PendingEntries : o \in PendingEntries' =>
            {p.id : p \in Ahead(o)'} \subseteq {p.id : p \in Ahead(o)}]_vars
    /\ [][(reply'.op = "get_outgoing" /\ PendingEntries # {}) =>
            /\ reply'.messages # <<>>
            /\ Ahead(reply'.messages[1]) = {}
            /\ \A i \in DOMAIN reply'.messages : reply'.messages[i].id \in call'.seen]_vars
    /\ \A id \in AckIds : Enqueued(id) ~> Delivered(id)

\* C27 witness: the first entry was returned by a poll and acknowledged
\* while the second message was still being processed, and the second entry
\* was delivered after it
EventuallyDeliveredWitness ==
    /\ Delivered(1) /\ Delivered(2)
    /\ \E o, p \in outbox : o.id = 1 /\ p.id = 2 /\ o.status = "sent" /\ p.status = "sent"
                            /\ o.sent_at < p.created_at

\* the ids of the entries the outbox holds
OutboxIds == {o.id : o \in outbox}

\* C28: outbox ids are never reused: enqueue returns an id different from
\* every id returned before, also after cleanup_old deleted entries, so a
\* late acknowledge for a purged id returns false and resolves no other
\* entry.
IdsNeverReused ==
    /\ [](\A o \in outbox : o.id \in 1..sqlite_sequence.outbox)
    /\ [](\A o, p \in outbox : o.id = p.id => o = p)
    /\ [][/\ sqlite_sequence'.outbox >= sqlite_sequence.outbox
          /\ \A o \in outbox' :
                o.id \notin OutboxIds =>
                    /\ o.id > sqlite_sequence.outbox
                    /\ o.id = sqlite_sequence'.outbox]_vars
    /\ [][\A a \in Acks :
            Executes(a) =>
                /\ \A o \in outbox : o.id # ack[a].message_id => o \in outbox'
                /\ ack[a].message_id \notin OutboxIds =>
                      ack'[a].success = "false" /\ outbox' = outbox]_vars

\* C28 witness: entry 1 was acknowledged and purged, entry 2 was enqueued
\* after that, and a late acknowledgment for id 1 returned false and left
\* entry 2 pending
IdsNeverReusedWitness ==
    /\ OutboxIds = {2}
    /\ \A o \in outbox : o.status = "pending"
    /\ \E a, b \in Acks :
          /\ ack[a].pc = "done" /\ ack[a].message_id = 1 /\ ack[a].success = "true"
          /\ ack[b].pc = "done" /\ ack[b].message_id = 1 /\ ack[b].success = "false"
          /\ \A o \in outbox : ack[b].now # NULL /\ o.created_at <= ack[b].now

====
